---- MODULE Spec2Model ----
(***************************************************************************)
(* A model of the subscriptions API of src/main.py (FastAPI handlers over  *)
(* a MongoDB store with the collections customer, plan, subscription and   *)
(* booking) and of the entity schemas of src/schemas.py.                   *)
(*                                                                         *)
(* Spec     : every request is handled atomically, one after the other.    *)
(* SpecSeed : NumWorkers concurrent POST /api/seed requests, where every   *)
(*            find_one and every insert_one is a separate store step.      *)
(***************************************************************************)
EXTENDS Integers, Sequences, FiniteSets, TLC

\* ------------------------------------------------------------------ bounds
\* documents that create_document may insert (customers + subscriptions + bookings)
MaxDocs == 3
\* the wall clock takes the values 0 .. MaxClock (in days)
MaxClock == 1
\* the identifiers of the requests name the keys 0 .. MaxKey
MaxKey == 4
\* concurrent seed requests of SpecSeed
NumWorkers == 2

\* ------------------------------------------------------- program constants
RenewalDays == 30
CarYearMin == 1970
CarYearMax == 2100

VARIABLES
    db,             \* TRUE: the store handle is connected; FALSE: db is None
    customer,       \* the four collections: sets of documents, each with _id
    plan,
    subscription,
    booking,
    nextId,         \* the next ObjectId the store generates
    clock,          \* the day datetime.now(timezone.utc) returns
    request,        \* Spec: the request being answered, [op |-> "none"] when idle
    response,       \* Spec: the response to it, on its way to the client
    pc,             \* SpecSeed: per worker, its position in seed_plans
    idx,            \* SpecSeed: per worker, the index of p in plans
    existing,       \* SpecSeed: per worker, the result of its last find_one
    inserted,       \* SpecSeed: per worker, its local counter
    seed_response   \* SpecSeed: per worker, the response to its last call

store == <<customer, plan, subscription, booking>>
workers == <<pc, idx, existing, inserted, seed_response>>
vars == <<db, customer, plan, subscription, booking, nextId, clock,
          request, response, pc, idx, existing, inserted, seed_response>>

Workers == 1 .. NumWorkers

\* no request is being answered
NoRequest == [op |-> "none"]
NoResponse == [status |-> 0]
Idle == request = NoRequest

\* Python's None, for Optional[...] values: a sequence of length 0 or 1
None == <<>>
Some(x) == <<x>>

\* --------------------------------------------------------------- ObjectId
\* An identifier string of a request: 24 hex digits (kind "hex", naming the
\* key `key`), any other non-empty text ("malformed"), or the empty string.
\* the keys a request may name; key 0 is never generated
Keys == 0 .. MaxKey
MalformedId == [kind |-> "malformed", key |-> 0]
EmptyId == [kind |-> "empty", key |-> 0]
IdStrings == [kind : {"hex"}, key : Keys] \cup {MalformedId, EmptyId}

\* bson.ObjectId(s): the key, or None for the InvalidId exception
ObjectId(s) == IF s.kind = "hex" THEN Some(s.key) ELSE None

\* str(oid): the 24 hex digits of the key
str(oid) == [kind |-> "hex", key |-> oid]

\* the truth value of a Python string
Truthy(s) == s.kind # "empty"

\* ------------------------------------------------------------------ store
\* collection.find_one({"_id": oid}): the set of (at most one) matching documents
find_one_id(coll, oid) == {d \in coll : d._id = oid}

\* collection.find_one({"tier": tier})
find_one_tier(coll, tier) == {d \in coll : d.tier = tier}

\* collection.insert_one(doc): the store adds the generated _id
insert_one(coll, doc, id) == coll \cup {[_id |-> id] @@ doc}

\* database.create_document(collection_name, data), the store available
create_document(coll, data, id) == insert_one(coll, data, id)

\* database.get_documents(collection_name, filter_dict), the store available
get_documents(coll, filter) ==
    {d \in coll : \A k \in DOMAIN filter : k \in DOMAIN d /\ d[k] = filter[k]}

\* d["_id"] = str(d["_id"])
Stringify(d) == [d EXCEPT !._id = str(d._id)]

\* ---------------------------------------------------------------- schemas
ServerError == [status |-> 500, detail |-> "Internal Server Error"]
Unprocessable == [status |-> 422, detail |-> "Unprocessable Entity"]
Ok(body) == [status |-> 200, body |-> body]

\* the plans list of seed_plans
plans == <<
    [name |-> "Essential Wash", tier |-> "basic", price_qr |-> 79,
     description |-> "Exterior wash + interior vacuum (1x/week)",
     features |-> <<"Exterior wash", "Interior vacuum", "Tyre shine">>,
     is_active |-> TRUE],
    [name |-> "Care Plus", tier |-> "standard", price_qr |-> 149,
     description |-> "Wash + interior detail (2x/month)",
     features |-> <<"Exterior wash", "Interior detail", "Glass cleaning">>,
     is_active |-> TRUE],
    [name |-> "Premium Detail", tier |-> "premium", price_qr |-> 299,
     description |-> "Full detailing + priority booking",
     features |-> <<"Full detailing", "Wax coat", "Priority booking">>,
     is_active |-> TRUE],
    [name |-> "Annual Care", tier |-> "yearly", price_qr |-> 1000,
     description |-> "Yearly subscription with discounted bundled services",
     features |-> <<"Up to 12 washes per year", "Quarterly interior detailing",
                    "Priority booking", "Annual wax and polish">>,
     is_active |-> TRUE] >>

\* request body model CreateCustomer: the required fields are present
CreateCustomer(body) ==
    {"name", "email", "phone", "car_make", "car_model"} \subseteq DOMAIN body

\* payload.model_dump() of a CreateCustomer
CustomerDump(body) ==
    [name |-> body.name, email |-> body.email, phone |-> body.phone,
     car_make |-> body.car_make, car_model |-> body.car_model,
     car_year |-> body.car_year, plate_number |-> body.plate_number]

\* EmailStr of schemas.Customer.email
EmailStr(e) == e \in {"jamie@example.com"}

\* schemas.Customer: the declared constraints on a customer record
Customer(rec) ==
    /\ EmailStr(rec.email)
    /\ rec.car_year # None => (rec.car_year[1] >= CarYearMin /\ rec.car_year[1] <= CarYearMax)

\* datetime parsing of CreateBooking.scheduled_date: the instant, or None
ParseDatetime(s) == IF s = "1970-01-02T00:00:00Z" THEN Some(1) ELSE None

\* request body model CreateBooking
CreateBooking(body) == ParseDatetime(body.scheduled_date) # None

\* payload.model_dump() of a CreateBooking
BookingDump(body) ==
    [subscription_id |-> body.subscription_id, service_type |-> body.service_type,
     scheduled_date |-> ParseDatetime(body.scheduled_date)[1],
     location |-> body.location, notes |-> body.notes]

\* ----------------------------------------------------------------- inputs
CustomerBody(email, car_year) ==
    [name |-> "Jamie", email |-> email, phone |-> "+974 5555 0100",
     car_make |-> "Toyota", car_model |-> "Camry", car_year |-> car_year,
     plate_number |-> None]
\* a body without the required field name, and bodies with every field
CustomerBodies ==
    {[email |-> "jamie@example.com", phone |-> "+974 5555 0100"],
     CustomerBody("jamie@example.com", Some(2020)),
     CustomerBody("not-an-email", Some(1969))}
SubscriptionBodies == [customer_id : IdStrings, plan_id : IdStrings]
BookingBodies ==
    [subscription_id : IdStrings, service_type : {"wash"},
     scheduled_date : {"1970-01-02T00:00:00Z", "tomorrow"},
     location : {"Doha"}, notes : {None}]

\* plans a store may hold before the service starts: a retired basic plan
\* and a standard plan of an earlier seeding
Preexisting ==
    <<[created_at |-> 0, updated_at |-> 0] @@ [plans[1] EXCEPT !.is_active = FALSE],
      [created_at |-> 0, updated_at |-> 0] @@ plans[2]>>

RECURSIVE Load(_, _, _)
Load(S, coll, id) ==
    IF S = {} THEN coll
    ELSE LET i == CHOOSE x \in S : \A y \in S : x <= y
         IN Load(S \ {i}, insert_one(coll, Preexisting[i], id), id + 1)

Init ==
    /\ db \in BOOLEAN
    /\ \E S \in {{}, 1 .. Len(Preexisting)} :
          /\ plan = (IF db THEN Load(S, {}, 1) ELSE {})
          /\ nextId = (IF db THEN Cardinality(S) + 1 ELSE 1)
    /\ customer = {}
    /\ subscription = {}
    /\ booking = {}
    /\ clock = 0
    /\ request = NoRequest
    /\ response = NoResponse
    /\ pc = [w \in Workers |-> "idle"]
    /\ idx = [w \in Workers |-> 1]
    /\ existing = [w \in Workers |-> {}]
    /\ inserted = [w \in Workers |-> 0]
    /\ seed_response = [w \in Workers |-> [status |-> 0]]

\* the documents inserted through create_document
DocCount == Cardinality(customer) + Cardinality(subscription) + Cardinality(booking)

\* ------------------------------------------------------------- seed_plans
\* the document seed_plans inserts for template p: {**p, created_at, updated_at};
\* the clock counts days, and the two datetime.now() calls of one insert read
\* the same day
SeedDoc(p, now) == [created_at |-> now, updated_at |-> now] @@ p

\* a seed routine that inserts every template, whatever the lookup found
NotExisting_always(found) == TRUE

\* `not existing`, for the result of the find_one by tier
NotExisting(found) == found = {}

\* the for loop of seed_plans from template i on, n plans inserted so far
RECURSIVE SeedLoop(_, _, _, _)
SeedLoop(i, coll, id, n) ==
    IF i > Len(plans) THEN [plan |-> coll, nextId |-> id, inserted |-> n]
    ELSE IF NotExisting(find_one_tier(coll, plans[i].tier))
         THEN SeedLoop(i + 1, insert_one(coll, SeedDoc(plans[i], clock), id), id + 1, n + 1)
         ELSE SeedLoop(i + 1, coll, id, n)

\* POST /api/seed
seed_plans ==
    /\ Idle
    /\ request' = [op |-> "seed_plans"]
    /\ IF ~db
       THEN /\ response' = [status |-> 500, detail |-> "Database not configured"]
            /\ UNCHANGED <<plan, nextId>>
       ELSE LET r == SeedLoop(1, plan, nextId, 0)
            IN /\ plan' = r.plan
               /\ nextId' = r.nextId
               /\ response' = Ok([inserted |-> r.inserted])
    /\ UNCHANGED <<db, customer, subscription, booking, clock, workers>>

\* ------------------------------------------------------------- list_plans
\* a catalog query without a filter: get_documents("plan", {})
ActiveFilter_none == <<>>

\* the filter list_plans passes to get_documents
ActiveFilter == [is_active |-> TRUE]

\* GET /api/plans
list_plans ==
    /\ Idle
    /\ request' = [op |-> "list_plans"]
    /\ response' = (IF ~db THEN ServerError
                    ELSE Ok({Stringify(d) : d \in get_documents(plan, ActiveFilter)}))
    /\ UNCHANGED <<db, store, nextId, clock, workers>>

\* -------------------------------------------------------- create_customer
\* POST /api/customers
create_customer(body) ==
    /\ Idle
    /\ request' = [op |-> "create_customer", payload |-> body]
    /\ IF ~CreateCustomer(body)
       THEN response' = Unprocessable /\ UNCHANGED <<customer, nextId>>
       ELSE IF ~db
       THEN response' = ServerError /\ UNCHANGED <<customer, nextId>>
       ELSE /\ DocCount < MaxDocs
            /\ customer' = create_document(customer, CustomerDump(body), nextId)
            /\ nextId' = nextId + 1
            /\ response' = Ok([id |-> str(nextId)])
    /\ UNCHANGED <<db, plan, subscription, booking, clock, workers>>

\* ---------------------------------------------------- create_subscription
\* the lookups of lines 154-155 raise: db is None, or ObjectId(...) raises InvalidId
LookupRaises(s) == Truthy(s) /\ (~db \/ ObjectId(s) = None)

\* db[coll].find_one({"_id": ObjectId(s)}) if s else None
Lookup(coll, s) == IF Truthy(s) THEN find_one_id(coll, ObjectId(s)[1]) ELSE {}

\* a reference check that fails only when both lookups fail
RefsMissing_both(cust, pl) == cust = {} /\ pl = {}

\* `not cust or not plan`
RefsMissing(cust, pl) == cust = {} \/ pl = {}

\* a renewal one calendar month of 31 days ahead
RenewsAt_month(now) == now + 31

\* renew = now + timedelta(days=30)
RenewsAt(now) == now + RenewalDays

\* the sub dict of create_subscription
SubDoc(payload, now) ==
    [customer_id |-> payload.customer_id, plan_id |-> payload.plan_id,
     status |-> "active", starts_at |-> now, renews_at |-> RenewsAt(now)]

\* POST /api/subscriptions
create_subscription(payload) ==
    /\ Idle
    /\ request' = [op |-> "create_subscription", payload |-> payload]
    /\ IF LookupRaises(payload.customer_id) \/ LookupRaises(payload.plan_id)
       THEN response' = ServerError /\ UNCHANGED <<subscription, nextId>>
       ELSE IF RefsMissing(Lookup(customer, payload.customer_id), Lookup(plan, payload.plan_id))
       THEN /\ response' = [status |-> 404, detail |-> "Customer or Plan not found"]
            /\ UNCHANGED <<subscription, nextId>>
       ELSE /\ DocCount < MaxDocs
            /\ LET now == clock
               IN subscription' = create_document(subscription, SubDoc(payload, now), nextId)
            /\ nextId' = nextId + 1
            /\ response' = Ok([id |-> str(nextId)])
    /\ UNCHANGED <<db, customer, plan, booking, clock, workers>>

\* ----------------------------------------------------- list_subscriptions
\* GET /api/subscriptions?customer_id=
list_subscriptions(customer_id) ==
    /\ Idle
    /\ request' = [op |-> "list_subscriptions", customer_id |-> customer_id]
    /\ LET query == IF customer_id # None /\ Truthy(customer_id[1])
                    THEN [customer_id |-> customer_id[1]]
                    ELSE <<>>
       IN response' = (IF ~db THEN ServerError
                       ELSE Ok({Stringify(d) : d \in get_documents(subscription, query)}))
    /\ UNCHANGED <<db, store, nextId, clock, workers>>

\* --------------------------------------------------------- create_booking
\* POST /api/bookings
create_booking(body) ==
    /\ Idle
    /\ request' = [op |-> "create_booking", payload |-> body]
    /\ IF ~CreateBooking(body)
       THEN response' = Unprocessable /\ UNCHANGED <<booking, nextId>>
       ELSE IF ~db \/ ObjectId(body.subscription_id) = None
       THEN response' = ServerError /\ UNCHANGED <<booking, nextId>>
       ELSE IF find_one_id(subscription, ObjectId(body.subscription_id)[1]) = {}
       THEN /\ response' = [status |-> 404, detail |-> "Subscription not found"]
            /\ UNCHANGED <<booking, nextId>>
       ELSE /\ DocCount < MaxDocs
            /\ booking' = create_document(booking, BookingDump(body), nextId)
            /\ nextId' = nextId + 1
            /\ response' = Ok([id |-> str(nextId)])
    /\ UNCHANGED <<db, customer, plan, subscription, clock, workers>>

\* the handler has returned and the client receives the response: the request
\* is over, and the next one is answered from the store as it is now
Deliver ==
    /\ ~Idle
    /\ request' = NoRequest
    /\ response' = NoResponse
    /\ UNCHANGED <<db, store, nextId, clock, workers>>

\* a day passes between two requests
Tick ==
    /\ Idle
    /\ clock < MaxClock
    /\ clock' = clock + 1
    /\ UNCHANGED <<db, store, nextId, request, response, workers>>

Next ==
    \/ Tick
    \/ Deliver
    \/ seed_plans
    \/ list_plans
    \/ \E body \in CustomerBodies : create_customer(body)
    \/ \E payload \in SubscriptionBodies : create_subscription(payload)
    \/ \E c \in {None} \cup {Some(s) : s \in IdStrings} : list_subscriptions(c)
    \/ \E body \in BookingBodies : create_booking(body)

Spec == Init /\ [][Next]_vars

\* ------------------------------------------- seed_plans, request by request
\* worker w enters seed_plans: the `db is None` test, then inserted = 0
seed_enter(w) ==
    /\ pc[w] = "idle"
    /\ IF ~db
       THEN /\ seed_response' = [seed_response EXCEPT ![w] =
                                    [status |-> 500, detail |-> "Database not configured"]]
            /\ UNCHANGED <<pc, idx, inserted>>
       ELSE /\ pc' = [pc EXCEPT ![w] = "find"]
            /\ idx' = [idx EXCEPT ![w] = 1]
            /\ inserted' = [inserted EXCEPT ![w] = 0]
            /\ UNCHANGED seed_response
    /\ UNCHANGED <<db, store, nextId, clock, request, response, existing>>

\* existing = db["plan"].find_one({"tier": p["tier"]})
seed_find(w) ==
    /\ pc[w] = "find"
    /\ idx[w] <= Len(plans)
    /\ existing' = [existing EXCEPT ![w] = find_one_tier(plan, plans[idx[w]].tier)]
    /\ pc' = [pc EXCEPT ![w] = "test"]
    /\ UNCHANGED <<db, store, nextId, clock, request, response, idx, inserted, seed_response>>

\* if not existing: db["plan"].insert_one(...); inserted += 1
seed_insert(w) ==
    /\ pc[w] = "test"
    /\ NotExisting(existing[w])
    /\ plan' = insert_one(plan, SeedDoc(plans[idx[w]], clock), nextId)
    /\ nextId' = nextId + 1
    /\ inserted' = [inserted EXCEPT ![w] = @ + 1]
    /\ idx' = [idx EXCEPT ![w] = @ + 1]
    /\ pc' = [pc EXCEPT ![w] = "find"]
    /\ UNCHANGED <<db, customer, subscription, booking, clock, request, response,
                   existing, seed_response>>

\* existing is a document: on to the next template
seed_skip(w) ==
    /\ pc[w] = "test"
    /\ ~NotExisting(existing[w])
    /\ idx' = [idx EXCEPT ![w] = @ + 1]
    /\ pc' = [pc EXCEPT ![w] = "find"]
    /\ UNCHANGED <<db, store, nextId, clock, request, response, existing, inserted,
                   seed_response>>

\* return {"inserted": inserted}
seed_return(w) ==
    /\ pc[w] = "find"
    /\ idx[w] > Len(plans)
    /\ seed_response' = [seed_response EXCEPT ![w] = Ok([inserted |-> inserted[w]])]
    /\ pc' = [pc EXCEPT ![w] = "idle"]
    /\ UNCHANGED <<db, store, nextId, clock, request, response, idx, existing, inserted>>

NextSeed ==
    \/ Tick
    \/ \E w \in Workers : seed_enter(w)
    \/ \E w \in Workers : seed_find(w)
    \/ \E w \in Workers : seed_insert(w)
    \/ \E w \in Workers : seed_skip(w)
    \/ \E w \in Workers : seed_return(w)

SpecSeed == Init /\ [][NextSeed]_vars

\* ================================================================ claims
\* the identifier string s denotes a document of the collection
Denotes(coll, s) == ObjectId(s) # None /\ find_one_id(coll, ObjectId(s)[1]) # {}

\* the identifier string s cannot be parsed into an ObjectId
Malformed(s) == ObjectId(s) = None

\* this step answers a request of operation op
Answers(op) == Idle /\ request'.op = op

NotFound(detail) == [status |-> 404, detail |-> detail]

\* C1: with the store connected, a create_subscription whose customer_id or
\* plan_id denotes no existing customer or plan is answered 404 'Customer or
\* Plan not found' and leaves every collection unchanged.
C1_MissingReferenceIs404 ==
    [][(/\ Answers("create_subscription")
        /\ db
        /\ ~(/\ Denotes(customer, request'.payload.customer_id)
             /\ Denotes(plan, request'.payload.plan_id)))
       => (response' = NotFound("Customer or Plan not found") /\ store' = store)]_vars

\* C2: with the store connected, a create_booking whose subscription_id
\* denotes no existing subscription is answered 404 'Subscription not found'
\* and leaves every collection unchanged.
C2_MissingSubscriptionIs404 ==
    [][(/\ Answers("create_booking")
        /\ db
        /\ CreateBooking(request'.payload)
        /\ ~Denotes(subscription, request'.payload.subscription_id))
       => (response' = NotFound("Subscription not found") /\ store' = store)]_vars

\* C3: every document of the booking collection carries a status field equal
\* to "scheduled".
C3_BookingsScheduled ==
    \A b \in booking : "status" \in DOMAIN b /\ b.status = "scheduled"

\* C4: with the store connected, a create_subscription or create_booking whose
\* identifier cannot be parsed into an ObjectId is answered 404, as for an
\* unknown identifier, and writes nothing.
C4_MalformedIdIs404 ==
    [][(/\ db
        /\ \/ /\ Answers("create_subscription")
              /\ \/ Malformed(request'.payload.customer_id)
                 \/ Malformed(request'.payload.plan_id)
           \/ /\ Answers("create_booking")
              /\ CreateBooking(request'.payload)
              /\ Malformed(request'.payload.subscription_id))
       => (response'.status = 404 /\ store' = store)]_vars

\* C5: every subscription document has status "active" and renews exactly 30
\* days after it starts, whatever the tier of its plan; the subscription a
\* step creates starts at the instant of that step.
C5_ActiveThirtyDays ==
    /\ \A s \in subscription : s.status = "active" /\ s.renews_at - s.starts_at = 30
    /\ (request.op = "create_subscription" /\ response.status = 200) =>
          \E s \in subscription : /\ str(s._id) = response.body.id
                                  /\ s.starts_at = clock
                                  /\ s.customer_id = request.payload.customer_id
                                  /\ s.plan_id = request.payload.plan_id

\* two subscriptions to plans of different tiers exist
C5_Witness ==
    \E s1 \in subscription : \E s2 \in subscription :
       \E p1 \in plan : \E p2 \in plan :
          /\ Denotes({p1}, s1.plan_id)
          /\ Denotes({p2}, s2.plan_id)
          /\ p1.tier # p2.tier

\* the templates of seed_plans no plan of the collection has the tier of
MissingTiers(coll) == {i \in 1 .. Len(plans) : ~\E d \in coll : d.tier = plans[i].tier}

\* C6: a completed seed_plans returns the number of the four tiers that had no
\* plan before it and inserts that many plans, after it every tier has a plan,
\* and when every tier had a plan before it, it returns 0 and leaves the plan
\* collection unchanged.
C6_SeedIdempotent ==
    [][(Answers("seed_plans") /\ response'.status = 200)
       => /\ response'.body.inserted = Cardinality(MissingTiers(plan))
          /\ Cardinality(plan') = Cardinality(plan) + response'.body.inserted
          /\ plan \subseteq plan'
          /\ MissingTiers(plan') = {}
          /\ MissingTiers(plan) = {} => (response'.body.inserted = 0 /\ plan' = plan)]_vars

\* a seed_plans call that found every tier present returned 0
C6_Witness ==
    /\ request.op = "seed_plans"
    /\ response.status = 200
    /\ response.body.inserted = 0
    /\ Cardinality(plan) = Len(plans)

\* C7: with the store connected, a create_customer whose record violates a
\* constraint schemas.Customer declares (email not well-formed, or car_year
\* outside [1970, 2100]) fails with a validation error and inserts no customer.
C7_ValidationBeforeWrite ==
    [][(/\ Answers("create_customer")
        /\ db
        /\ CreateCustomer(request'.payload)
        /\ ~Customer(request'.payload))
       => (response'.status = 422 /\ customer' = customer)]_vars

\* C8: every subscription's customer_id and plan_id denote an existing customer
\* and plan, and every booking's subscription_id an existing subscription.
C8_ReferentialIntegrity ==
    /\ \A s \in subscription : Denotes(customer, s.customer_id) /\ Denotes(plan, s.plan_id)
    /\ \A b \in booking : Denotes(subscription, b.subscription_id)

\* a booking under a subscription of a customer to a plan exists, and the
\* plans were seeded
C8_Witness ==
    /\ booking # {}
    /\ subscription # {}
    /\ customer # {}
    /\ MissingTiers(plan) = {}

\* C9: list_plans leaves the store unchanged and, with the store connected,
\* returns exactly the plans with is_active = TRUE, each with its identifier
\* stringified, and no plan with is_active = FALSE.
C9_OnlyActivePlans ==
    [][Answers("list_plans")
       => /\ store' = store
          /\ db => /\ response'.status = 200
                   /\ \A d \in response'.body :
                         /\ d.is_active = TRUE
                         /\ \E p \in plan : d = [p EXCEPT !._id = str(p._id)]
                   /\ \A p \in plan :
                         p.is_active = TRUE => \E d \in response'.body : d._id = str(p._id)
                   /\ Cardinality(response'.body)
                         = Cardinality({p \in plan : p.is_active = TRUE})]_vars

\* list_plans answered with some plans while the collection held a retired one
C9_Witness ==
    /\ request.op = "list_plans"
    /\ response.status = 200
    /\ response.body # {}
    /\ \E p \in plan : p.is_active = FALSE

\* C10: under concurrent seed requests whose lookups and inserts interleave,
\* the plan collection never holds two plans of the same tier.
C10_NoDuplicateTier ==
    \A d1 \in plan : \A d2 \in plan : d1.tier = d2.tier => d1 = d2

====
